---------------------------- MODULE Spec2Model ----------------------------
(***************************************************************************)
(* Transcript analytics of src/src/transcription/enhanced_deepgram.py.     *)
(*                                                                         *)
(* EnhancedDeepgramTranscriber.transcribe_with_advanced_features runs      *)
(* _process_advanced_response, _check_script_compliance,                   *)
(* _extract_sales_metrics and _analyze_interaction_quality one after the   *)
(* other on one provider response; _generate_insights_report of            *)
(* src/src/pipelines/enhanced_hybrid_pipeline.py turns the dict they build *)
(* into insights.  Text is modelled by TLA+ strings, on                    *)
(* which Len, SubSeq, Head, Tail and \o act character by character; times  *)
(* are integers in tenths of a second; quotients are exact fractions.      *)
(***************************************************************************)
EXTENDS Integers, Sequences, FiniteSets, TLC

VARIABLES
    call_direction,   \* argument of transcribe_with_advanced_features
    response,         \* what the provider returns for the audio file
    result,           \* the dict built by transcribe_with_advanced_features
    pc,               \* position inside transcribe_with_advanced_features
    insights,         \* the dict returned by _generate_insights_report
    duration_str,     \* argument of parse_duration
    seconds,          \* what parse_duration returns
    pipeline,         \* the class of the pipeline object: "final" or "enhanced"
    calls,            \* table calls: the status column by call_id
    call_analysis,    \* table call_analysis: the number of rows by call_id
    pending_calls,    \* run_pipeline: the rows selected for processing
    results,          \* run_pipeline: what process_call_complete returned
    runs              \* the run_pipeline invocations so far

pipeline_vars == <<pipeline, calls, call_analysis, pending_calls, results, runs>>

vars == <<call_direction, response, result, pc, insights, duration_str, seconds,
          pipeline_vars>>

---------------------------------------------------------------------------
(* Bounds of the explored inputs *)

MaxUtterances == 2
MaxTimedUtterances == 3
MaxTranscriptWords == 3
MaxWords == 3

---------------------------------------------------------------------------
(* Python values *)

None == [py |-> "None"]

\* no pipeline object
PipelineIdle ==
    /\ pipeline = None
    /\ calls = <<>>
    /\ call_analysis = <<>>
    /\ pending_calls = <<>>
    /\ results = <<>>
    /\ runs = 0

RECURSIVE Gcd(_, _)
Gcd(a, b) == IF b = 0 THEN a ELSE Gcd(b, a % b)

Abs(n) == IF n < 0 THEN -n ELSE n

\* the quotient n / d (d > 0), in lowest terms
Frac(n, d) ==
    LET g == Gcd(Abs(n), d)
    IN  [num |-> n \div g, den |-> d \div g]

FracLeq(x, y) == x.num * y.den <= y.num * x.den

IsFrac(x) == DOMAIN x = {"num", "den"}

\* d[k] = v on a dict
SetItem(d, k, v) == (k :> v) @@ d

---------------------------------------------------------------------------
(* str methods *)

UpperCase == <<"A", "B", "C", "D", "E", "F", "G", "H", "I", "J", "K", "L", "M",
               "N", "O", "P", "Q", "R", "S", "T", "U", "V", "W", "X", "Y", "Z">>
LowerCase == <<"a", "b", "c", "d", "e", "f", "g", "h", "i", "j", "k", "l", "m",
               "n", "o", "p", "q", "r", "s", "t", "u", "v", "w", "x", "y", "z">>

\* the lower-case letter of each upper-case letter
UpperToLower ==
    [c \in {UpperCase[i] : i \in 1..26} |->
        LowerCase[CHOOSE i \in 1..26 : UpperCase[i] = c]]

LowerChar(c) == IF c \in DOMAIN UpperToLower THEN UpperToLower[c] ELSE c

\* s.lower()
RECURSIVE lower(_)
lower(s) ==
    IF Len(s) <= 1 THEN LowerChar(s)
    ELSE LET half == Len(s) \div 2
         IN  lower(SubSeq(s, 1, half)) \o lower(SubSeq(s, half + 1, Len(s)))

\* k in s
In(k, s) ==
    \E i \in 0..(Len(s) - Len(k)) : SubSeq(s, i + 1, i + Len(k)) = k

\* ':'.join(list)
RECURSIVE join_colon(_)
join_colon(list) ==
    IF list = <<>> THEN ""
    ELSE IF Len(list) = 1 THEN list[1]
    ELSE list[1] \o ":" \o join_colon(Tail(list))

\* ' '.join(list)
RECURSIVE join(_)
join(list) ==
    IF list = <<>> THEN ""
    ELSE IF Len(list) = 1 THEN list[1]
    ELSE list[1] \o " " \o join(Tail(list))

Min(S) == CHOOSE x \in S : \A y \in S : x <= y

\* the positions from i on at which k occurs in s
Occurrences(s, k, i) ==
    {j \in i..(Len(s) - Len(k) + 1) : SubSeq(s, j, j + Len(k) - 1) = k}

\* s.count(k) from position i on: the leftmost occurrence, then the
\* occurrences after its end
RECURSIVE CountFrom(_, _, _)
CountFrom(s, k, i) ==
    IF Occurrences(s, k, i) = {} THEN 0
    ELSE 1 + CountFrom(s, k, Min(Occurrences(s, k, i)) + Len(k))

\* sum(text.count(word) for word in words)
RECURSIVE CountAll(_, _)
CountAll(words, text) ==
    IF words = <<>> THEN 0
    ELSE CountFrom(text, words[1], 1) + CountAll(Tail(words), text)

\* CountPresent with every occurrence of a word counted
CountOccurrences(words, text) == CountAll(words, text)

\* sum(word in text for word in words)
RECURSIVE CountPresent(_, _)
CountPresent(words, text) ==
    IF words = <<>> THEN 0
    ELSE (IF In(words[1], text) THEN 1 ELSE 0) + CountPresent(Tail(words), text)

\* [k for k in keywords if k in text]
RECURSIVE KeywordsIn(_, _)
KeywordsIn(keywords, text) ==
    IF keywords = <<>> THEN <<>>
    ELSE (IF In(keywords[1], text) THEN <<keywords[1]>> ELSE <<>>)
         \o KeywordsIn(Tail(keywords), text)

---------------------------------------------------------------------------
(* Tables of EnhancedDeepgramTranscriber *)

\* keys of self.script_keywords, in insertion order
script_components == <<"greeting", "appointment_confirm", "upsell", "closing">>

script_keywords ==
    [greeting            |-> <<"thank you for calling", "how can I help">>,
     appointment_confirm |-> <<"scheduled for", "confirm your appointment">>,
     upsell              |-> <<"recommend", "also suggest", "while you're here">>,
     closing             |-> <<"anything else", "thank you for choosing">>]

topic_keywords == <<"oil change", "brake", "tire", "battery", "inspection", "alignment">>

positive_words == <<"thank", "great", "perfect", "excellent", "happy", "good", "yes">>
negative_words == <<"problem", "issue", "no", "cannot", "sorry", "unfortunately">>


---------------------------------------------------------------------------
(* Provider responses: response.results.utterances,                        *)
(* response.results.channels[0].alternatives[0].{transcript, confidence,   *)
(* words}.  An absent utterances or words attribute behaves as an empty    *)
(* list in _process_advanced_response, and is modelled by one.             *)

Directions == {"inbound", "outbound"}
Channels == {0, 1}

UtteranceTexts ==
    {"Thank you for calling",
     "How can I help you",
     "I also suggest a tire rotation",
     "You are scheduled for Thursday",
     "Is there anything else",
     "I need an oil change",
     "Thank you for calling, how can I help? We recommend an oil change, you are scheduled for Thursday. Anything else?"}

\* [start, end] of an utterance, in tenths of a second
Intervals ==
    {<<0, 50>>, <<40, 45>>, <<40, 120>>, <<47, 120>>, <<50, 120>>, <<52, 120>>,
     <<79, 120>>, <<80, 120>>, <<85, 120>>}

TranscriptWords == {"Great", "thank", "problem", "sorry", "know", "hello"}

WordTexts == {"yes", "sorry"}

\* confidence, in hundredths
Confidences == {95}

\* channel 0's transcript: the texts of the utterances on channel 0
RECURSIVE ChannelTranscript(_)
ChannelTranscript(utts) ==
    IF utts = <<>> THEN <<>>
    ELSE (IF utts[1].channel = 0 THEN <<utts[1].transcript>> ELSE <<>>)
         \o ChannelTranscript(Tail(utts))

\* utterances that differ in who says what, one after the other
TextUtteranceLists ==
    UNION {
        { [i \in 1..n |->
              [channel |-> ch[i], transcript |-> tx[i],
               start |-> 60 * (i - 1), end |-> 60 * (i - 1) + 50,
               confidence |-> cf]]
          : ch \in [1..n -> Channels], tx \in [1..n -> UtteranceTexts],
            cf \in Confidences }
        : n \in 1..MaxUtterances }

\* utterances that differ in when they are said, ordered by start, the two
\* channels taking turns
TimedUtteranceLists ==
    UNION {
        { [i \in 1..n |->
              [channel |-> (first + i - 1) % 2,
               transcript |-> IF (first + i - 1) % 2 = 0
                              THEN "Yeah, no problem" ELSE "Okay",
               start |-> iv[i][1], end |-> iv[i][2],
               confidence |-> cf]]
          : first \in Channels, cf \in Confidences,
            iv \in { f \in [1..n -> Intervals] :
                       \A i \in 1..(n - 1) : f[i][1] <= f[i + 1][1] } }
        : n \in 1..MaxTimedUtterances }

\* one utterance that ends when it starts
InstantUtteranceLists ==
    { << [channel |-> ch, transcript |-> "Okay", start |-> 50, end |-> 50,
          confidence |-> cf] >>
      : ch \in Channels, cf \in Confidences }

\* one utterance whose end is None: an attribute or a key that holds None in
\* the place of a number is modelled by a record without the field
NullEndUtteranceLists ==
    { << [channel |-> ch, transcript |-> "Thank you for calling", start |-> 0,
          confidence |-> cf] >>
      : ch \in Channels, cf \in Confidences }

\* one utterance with words of both lists of _analyze_interaction_quality
MannersTexts ==
    {"Yeah, yeah, no problem, sir",
     "Certainly sir, I am gonna check. Thank you, sir"}

MannersUtteranceLists ==
    { << [channel |-> ch, transcript |-> tx, start |-> 0, end |-> 50,
          confidence |-> cf] >>
      : ch \in Channels, tx \in MannersTexts, cf \in Confidences }

DiarizedResponses ==
    { [transcript |-> join(ChannelTranscript(u)), confidence |-> cf,
       utterances |-> u, words |-> <<>>]
      : u \in TextUtteranceLists \cup TimedUtteranceLists \cup InstantUtteranceLists
               \cup NullEndUtteranceLists \cup MannersUtteranceLists,
        cf \in Confidences }

\* no diarization: only the transcript varies
TranscriptResponses ==
    UNION {
        { [transcript |-> join(w), confidence |-> cf,
           utterances |-> <<>>, words |-> <<>>]
          : w \in [1..n -> TranscriptWords], cf \in Confidences }
        : n \in 0..MaxTranscriptWords }

\* words one after the other; a word without a speaker attribute has no
\* speaker field
WordLists ==
    UNION {
        { [i \in 1..n |->
              IF tg[i]
              THEN [word |-> wd[i], speaker |-> sp[i],
                    start |-> 10 * (i - 1), end |-> 10 * (i - 1) + 8]
              ELSE [word |-> wd[i],
                    start |-> 10 * (i - 1), end |-> 10 * (i - 1) + 8]]
          : tg \in [1..n -> BOOLEAN], sp \in [1..n -> Channels],
            wd \in [1..n -> WordTexts] }
        : n \in 1..MaxWords }

\* [start, end] of a word, in tenths of a second
WordTimings == {<<0, 8>>, <<5, 12>>, <<50, 58>>}

\* a word of each speaker, ordered by start, at times that coincide,
\* overlap or lie far apart
TimedWordLists ==
    { << [word |-> "yes", speaker |-> sp, start |-> t[1][1], end |-> t[1][2]],
         [word |-> "sorry", speaker |-> 1 - sp, start |-> t[2][1], end |-> t[2][2]] >>
      : sp \in Channels,
        t \in {u \in WordTimings \X WordTimings : u[1][1] <= u[2][1]} }

WordResponses ==
    { [transcript |-> join([i \in 1..Len(w) |-> w[i].word]),
       confidence |-> cf, utterances |-> <<>>, words |-> w]
      : w \in WordLists \cup TimedWordLists, cf \in Confidences }

\* what is said about appointments, services, prices and calling back
SalesPhrases ==
    {"You are booked for Friday",
     "That will be 65 dollars for the oil change",
     "The brake job is $1,250.50",
     "It costs 80 dollars",
     "An alignment is $89",
     "We need new tires",
     "I will call back tomorrow",
     "Let me think about it",
     "Hello there"}

\* more than 200 characters with no sales keyword in them
Filler ==
    "The technician looks at the car in the morning and calls in the afternoon. "
    \o "The technician looks at the car in the morning and calls in the afternoon. "
    \o "The technician looks at the car in the morning and calls in the afternoon. "

\* an offer of a further service, and the answer to it: at once, never, late,
\* to another offer, before the offer, to the offer's second occurrence
UpsellTranscripts ==
    {"We also recommend a new filter. Yes please",
     "We also recommend a new filter. Not today",
     "We also recommend a new filter. " \o Filler \o "Yes please",
     "You should also rotate them. Sure. " \o Filler \o "While you're here we can look",
     "Yes. We also recommend a new filter",
     "We also recommend a new filter. " \o Filler \o "We also recommend wipers. Okay"}

SalesTranscripts ==
    SalesPhrases
    \cup {a \o ". " \o b : a \in SalesPhrases, b \in SalesPhrases}
    \cup UpsellTranscripts

\* no diarization: a transcript of a sales conversation
SalesResponses ==
    { [transcript |-> t, confidence |-> cf, utterances |-> <<>>, words |-> <<>>]
      : t \in SalesTranscripts, cf \in Confidences }

Responses ==
    DiarizedResponses \cup TranscriptResponses \cup WordResponses \cup SalesResponses

---------------------------------------------------------------------------
(* _process_advanced_response *)

\* employee_channel with the call direction ignored
employee_channel_inbound(direction) == 0

employee_channel(direction) == IF direction = "inbound" THEN 0 ELSE 1
customer_channel(direction) == IF direction = "inbound" THEN 1 ELSE 0

\* the role of an utterance of response.results.utterances
speaker_label(utterance, direction) ==
    IF utterance.channel = employee_channel(direction) THEN "employee" ELSE "customer"

\* the role of a speaker-tagged word
word_speaker_label(word) == IF word.speaker = 0 THEN "employee" ELSE "customer"

\* result['utterances'] after the loop over response.results.utterances
RECURSIVE LabelUtterances(_, _)
LabelUtterances(utts, direction) ==
    IF utts = <<>> THEN <<>>
    ELSE << IF "end" \in DOMAIN utts[1]
            THEN [speaker    |-> speaker_label(utts[1], direction),
                  text       |-> utts[1].transcript,
                  start      |-> utts[1].start,
                  end        |-> utts[1].end,
                  confidence |-> utts[1].confidence,
                  channel    |-> utts[1].channel]
            ELSE [speaker    |-> speaker_label(utts[1], direction),
                  text       |-> utts[1].transcript,
                  start      |-> utts[1].start,
                  confidence |-> utts[1].confidence,
                  channel    |-> utts[1].channel] >>
         \o LabelUtterances(Tail(utts), direction)

\* WordStep with a word without a speaker attribute taken for speaker 1
WordStepUntagged(st, word) ==
    LET label == IF "speaker" \in DOMAIN word
                 THEN word_speaker_label(word) ELSE "customer"
    IN  IF label # st.current_speaker
        THEN [current_speaker   |-> label,
              current_utterance |-> <<word.word>>,
              current_start     |-> word.start,
              utterances        |->
                  IF st.current_utterance # <<>> /\ st.current_speaker # "None"
                  THEN Append(st.utterances,
                              [speaker |-> st.current_speaker,
                               text    |-> join(st.current_utterance),
                               start   |-> st.current_start,
                               end     |-> word.start])
                  ELSE st.utterances]
        ELSE [st EXCEPT !.current_utterance = Append(@, word.word)]

\* WordStep with the utterance before closed at the end of the word that
\* opens the next
WordStepClosesLate(st, word) ==
    IF "speaker" \notin DOMAIN word THEN st
    ELSE LET label == word_speaker_label(word)
         IN  IF label # st.current_speaker
             THEN [current_speaker   |-> label,
                   current_utterance |-> <<word.word>>,
                   current_start     |-> word.start,
                   utterances        |->
                       IF st.current_utterance # <<>> /\ st.current_speaker # "None"
                       THEN Append(st.utterances,
                                   [speaker |-> st.current_speaker,
                                    text    |-> join(st.current_utterance),
                                    start   |-> st.current_start,
                                    end     |-> word.end])
                       ELSE st.utterances]
             ELSE [st EXCEPT !.current_utterance = Append(@, word.word)]

\* one pass of the loop over the words, on the loop's locals
WordStep(st, word) ==
    IF "speaker" \notin DOMAIN word THEN st
    ELSE LET label == word_speaker_label(word)
         IN  IF label # st.current_speaker
             THEN [current_speaker   |-> label,
                   current_utterance |-> <<word.word>>,
                   current_start     |-> word.start,
                   utterances        |->
                       IF st.current_utterance # <<>> /\ st.current_speaker # "None"
                       THEN Append(st.utterances,
                                   [speaker |-> st.current_speaker,
                                    text    |-> join(st.current_utterance),
                                    start   |-> st.current_start,
                                    end     |-> word.start])
                       ELSE st.utterances]
             ELSE [st EXCEPT !.current_utterance = Append(@, word.word)]

RECURSIVE WordLoop(_, _)
WordLoop(st, words) ==
    IF words = <<>> THEN st ELSE WordLoop(WordStep(st, words[1]), Tail(words))

\* WordUtterances with the last utterance ending one second after its start
WordUtterancesEndAfterStart(words) ==
    LET st == WordLoop([current_speaker |-> "None", current_utterance |-> <<>>,
                        current_start |-> 0, utterances |-> <<>>], words)
    IN  IF st.current_utterance # <<>> /\ st.current_speaker # "None"
        THEN Append(st.utterances,
                    [speaker |-> st.current_speaker,
                     text    |-> join(st.current_utterance),
                     start   |-> st.current_start,
                     end     |-> st.current_start + 10])
        ELSE st.utterances

\* result['utterances'] after the word-level fallback
WordUtterances(words) ==
    LET st == WordLoop([current_speaker |-> "None", current_utterance |-> <<>>,
                        current_start |-> 0, utterances |-> <<>>], words)
    IN  IF st.current_utterance # <<>> /\ st.current_speaker # "None"
        THEN Append(st.utterances,
                    [speaker |-> st.current_speaker,
                     text    |-> join(st.current_utterance),
                     start   |-> st.current_start,
                     end     |-> words[Len(words)].end])
        ELSE st.utterances

\* result['speakers'][role]['utterances']: a text is appended there each
\* time an utterance of the role is appended to result['utterances']
RECURSIVE SpeakerTexts(_, _)
SpeakerTexts(utts, role) ==
    IF utts = <<>> THEN <<>>
    ELSE (IF utts[1].speaker = role THEN <<utts[1].text>> ELSE <<>>)
         \o SpeakerTexts(Tail(utts), role)

\* sentiment_overall without the division
sentiment_overall_undivided(transcript_lower) ==
    Frac(CountPresent(positive_words, transcript_lower)
         - CountPresent(negative_words, transcript_lower), 1)

\* sentiment_overall without the else branch: 'overall' keeps its initial None
sentiment_overall_no_else(transcript_lower) ==
    LET positive_count == CountPresent(positive_words, transcript_lower)
        negative_count == CountPresent(negative_words, transcript_lower)
    IN  IF positive_count + negative_count > 0
        THEN Frac(positive_count - negative_count, positive_count + negative_count)
        ELSE None

\* (positive_count - negative_count) / (positive_count + negative_count)
sentiment_overall(transcript_lower) ==
    LET positive_count == CountPresent(positive_words, transcript_lower)
        negative_count == CountPresent(negative_words, transcript_lower)
    IN  IF positive_count + negative_count > 0
        THEN Frac(positive_count - negative_count, positive_count + negative_count)
        ELSE Frac(0, 1)

\* result['sentiment']['by_speaker'], which no statement assigns to
sentiment_by_speaker(utts) == <<>>

process_advanced_response(resp, direction) ==
    LET utts == IF resp.utterances # <<>>
                THEN LabelUtterances(resp.utterances, direction)
                ELSE WordUtterances(resp.words)
        transcript_lower == lower(resp.transcript)
    IN  [success    |-> TRUE,
         transcript |-> resp.transcript,
         confidence |-> resp.confidence,
         speakers   |->
             [employee |-> [channel    |-> employee_channel(direction),
                            utterances |-> SpeakerTexts(utts, "employee")],
              customer |-> [channel    |-> customer_channel(direction),
                            utterances |-> SpeakerTexts(utts, "customer")]],
         sentiment  |-> [overall    |-> sentiment_overall(transcript_lower),
                         by_speaker |-> sentiment_by_speaker(utts),
                         timeline   |-> <<>>],
         topics     |-> KeywordsIn(topic_keywords, transcript_lower),
         entities   |-> <<>>,
         utterances |-> utts,
         summary    |-> None,
         language   |-> None,
         duration   |-> None]

---------------------------------------------------------------------------
(* _check_script_compliance *)

\* KeywordFound with == in the place of in
KeywordEquals(keyword, employee_utterances) == keyword = employee_utterances

\* keyword in employee_utterances
KeywordFound(keyword, employee_utterances) == In(keyword, employee_utterances)

\* the keyword at which the loop over a component's keywords breaks, in a
\* one-element list; the empty list when the loop ends without a break
RECURSIVE FirstKeyword(_, _)
FirstKeyword(keywords, employee_utterances) ==
    IF keywords = <<>> THEN <<>>
    ELSE IF KeywordFound(keywords[1], employee_utterances) THEN <<keywords[1]>>
    ELSE FirstKeyword(Tail(keywords), employee_utterances)

\* the loop over self.script_keywords.items(), from component i on
RECURSIVE ComplianceLoop(_, _, _)
ComplianceLoop(compliance, i, employee_utterances) ==
    IF i > Len(script_components) THEN compliance
    ELSE LET component == script_components[i]
             keywords  == script_keywords[component]
             hit       == FirstKeyword(keywords, employee_utterances)
         IN  ComplianceLoop(
                 IF hit # <<>>
                 THEN [compliance EXCEPT
                          !.found_components = Append(@, component),
                          !.details = SetItem(@, component,
                                              [found |-> TRUE, keyword |-> hit[1]])]
                 ELSE [compliance EXCEPT
                          !.missing_components = Append(@, component),
                          !.details = SetItem(@, component,
                                              [found |-> FALSE, expected |-> keywords])],
                 i + 1, employee_utterances)

\* compliance_score without the factor 100
compliance_score_unscaled(found_components, total_components) ==
    Frac(found_components, total_components)

\* (found_components / total_components) * 100
compliance_score(found_components, total_components) ==
    Frac(100 * found_components, total_components)

\* check_script_compliance scanning full_transcript
check_script_compliance_full_transcript(transcription_result) ==
    LET full_transcript == lower(transcription_result.transcript)
        compliance ==
            ComplianceLoop([score |-> Frac(0, 1), missing_components |-> <<>>,
                            found_components |-> <<>>, details |-> <<>>],
                           1, full_transcript)
    IN  [compliance EXCEPT
            !.score = compliance_score(Len(compliance.found_components),
                                       Len(script_components))]

check_script_compliance(transcription_result) ==
    LET employee_utterances ==
            lower(join(transcription_result.speakers.employee.utterances))
        compliance ==
            ComplianceLoop([score |-> Frac(0, 1), missing_components |-> <<>>,
                            found_components |-> <<>>, details |-> <<>>],
                           1, employee_utterances)
    IN  [compliance EXCEPT
            !.score = compliance_score(Len(compliance.found_components),
                                       Len(script_components))]

---------------------------------------------------------------------------
(* _extract_sales_metrics *)

appointment_keywords ==
    <<"scheduled for", "appointment on", "see you on", "come in on", "booked for">>

service_keywords ==
    <<"oil change", "brake", "tire", "alignment", "inspection",
      "diagnostic", "battery", "filter", "fluid", "rotation">>

upsell_keywords ==
    <<"also recommend", "while you're here", "might as well",
      "should also", "suggest checking">>

accept_words == <<"yes", "sure", "okay", "sounds good", "let's do">>

\* the length of the slice scanned for an acceptance
UpsellWindow == 200

Digits == {"0", "1", "2", "3", "4", "5", "6", "7", "8", "9"}
Spaces == {" ", "\t", "\n", "\r"}
WordChars == Digits \cup {"_"} \cup {LowerCase[i] : i \in 1..26}
                    \cup {UpperCase[i] : i \in 1..26}

\* the character at 1-based position i, "" outside the string
CharAt(s, i) == IF i >= 1 /\ i <= Len(s) THEN SubSeq(s, i, i) ELSE ""

\* the first position from i on whose character is not in class
RECURSIVE RunEnd(_, _, _)
RunEnd(s, i, class) ==
    IF CharAt(s, i) \in class THEN RunEnd(s, i + 1, class) ELSE i

\* \$[\d,]+(?:\.\d{2})? at position i: the position after the match, 0 for none
MatchDollarSign(s, i) ==
    LET j == RunEnd(s, i + 1, Digits \cup {","})
    IN  IF CharAt(s, i) = "$" /\ j > i + 1
        THEN IF CharAt(s, j) = "." /\ CharAt(s, j + 1) \in Digits
                                   /\ CharAt(s, j + 2) \in Digits
             THEN j + 3 ELSE j
        ELSE 0

\* MatchDollars with no space allowed before dollars
MatchDollarsNoSpace(s, i) ==
    LET j == RunEnd(s, i, Digits)
        m == j + 6
    IN  IF /\ j > i
           /\ CharAt(s, i - 1) \notin WordChars
           /\ j + 5 <= Len(s)
           /\ SubSeq(s, j, j + 5) = "dollar"
        THEN IF CharAt(s, m) = "s"
             THEN (IF CharAt(s, m + 1) \notin WordChars THEN m + 1 ELSE 0)
             ELSE (IF CharAt(s, m) \notin WordChars THEN m ELSE 0)
        ELSE 0

\* \b\d+\s*dollars?\b at position i: the position after the match, 0 for none
MatchDollars(s, i) ==
    LET j == RunEnd(s, i, Digits)
        k == RunEnd(s, j, Spaces)
        m == k + 6
    IN  IF /\ j > i
           /\ CharAt(s, i - 1) \notin WordChars
           /\ k + 5 <= Len(s)
           /\ SubSeq(s, k, k + 5) = "dollar"
        THEN IF CharAt(s, m) = "s"
             THEN (IF CharAt(s, m + 1) \notin WordChars THEN m + 1 ELSE 0)
             ELSE (IF CharAt(s, m) \notin WordChars THEN m ELSE 0)
        ELSE 0

MatchPrice(s, i) ==
    IF MatchDollarSign(s, i) # 0 THEN MatchDollarSign(s, i) ELSE MatchDollars(s, i)

\* the positions from i on at which the price pattern matches
PriceStarts(s, i) == {j \in i..Len(s) : MatchPrice(s, j) # 0}

\* re.findall(price_pattern, s), scanning from position i: the leftmost
\* match, then the matches after its end
RECURSIVE FindPrices(_, _)
FindPrices(s, i) ==
    IF PriceStarts(s, i) = {} THEN <<>>
    ELSE LET j == Min(PriceStarts(s, i))
         IN  <<SubSeq(s, j, MatchPrice(s, j) - 1)>> \o FindPrices(s, MatchPrice(s, j))

\* s.find(k), 0-based, for a k that occurs in s
Find(s, k) ==
    CHOOSE i \in 0..(Len(s) - Len(k)) :
        /\ SubSeq(s, i + 1, i + Len(k)) = k
        /\ \A j \in 0..(i - 1) : SubSeq(s, j + 1, j + Len(k)) # k

\* s[a:b] for 0 <= a <= b
Slice(s, a, b) ==
    IF a >= Len(s) THEN "" ELSE SubSeq(s, a + 1, IF b < Len(s) THEN b ELSE Len(s))

\* the first upsell keyword in the transcript, in a one-element list
upsell_keyword(transcript) ==
    LET present == KeywordsIn(upsell_keywords, transcript)
    IN  IF present = <<>> THEN <<>> ELSE <<present[1]>>

\* upsell_accepted with the slice running to the end of the transcript
upsell_accepted_to_the_end(transcript, keyword) ==
    LET at == Find(transcript, keyword)
    IN  \E a \in 1..Len(accept_words) :
            In(accept_words[a], Slice(transcript, at, Len(transcript)))

upsell_accepted(transcript, keyword) ==
    LET at == Find(transcript, keyword)
    IN  \E a \in 1..Len(accept_words) :
            In(accept_words[a], Slice(transcript, at, at + UpsellWindow))

\* sales_outcome with the quote tested before the appointment
sales_outcome_quote_first(metrics, transcript) ==
    IF metrics.services_mentioned # <<>> /\ metrics.price_discussed
    THEN "quoted_service"
    ELSE IF metrics.appointment_scheduled THEN "appointment_scheduled"
    ELSE IF In("call back", transcript) \/ In("think about it", transcript)
    THEN "follow_up_needed"
    ELSE "unknown"

sales_outcome(metrics, transcript) ==
    IF metrics.appointment_scheduled THEN "appointment_scheduled"
    ELSE IF metrics.services_mentioned # <<>> /\ metrics.price_discussed
    THEN "quoted_service"
    ELSE IF In("call back", transcript) \/ In("think about it", transcript)
    THEN "follow_up_needed"
    ELSE "unknown"

extract_sales_metrics(transcription_result) ==
    LET transcript == lower(transcription_result.transcript)
        prices     == FindPrices(transcript, 1)
        upsell     == upsell_keyword(transcript)
        metrics ==
            [appointment_scheduled |-> KeywordsIn(appointment_keywords, transcript) # <<>>,
             services_mentioned    |-> KeywordsIn(service_keywords, transcript),
             price_discussed       |-> prices # <<>>,
             prices_mentioned      |-> prices,
             upsell_attempted      |-> upsell # <<>>,
             upsell_accepted       |-> upsell # <<>> /\ upsell_accepted(transcript, upsell[1]),
             competitor_mentioned  |-> FALSE,
             follow_up_scheduled   |-> FALSE,
             outcome               |-> "unknown"]
    IN  [metrics EXCEPT !.outcome = sales_outcome(metrics, transcript)]

---------------------------------------------------------------------------
(* _analyze_interaction_quality *)

empathy_phrases ==
    <<"understand", "sorry to hear", "appreciate", "thank you",
      "happy to help", "no problem", "absolutely">>

professional_indicators ==
    <<"sir", "ma'am", "please", "thank you", "appreciate",
      "certainly", "absolutely", "happy to">>

unprofessional_indicators == <<"yeah", "nah", "dunno", "gonna", "wanna">>

\* the silence that counts, 3.0 s, in tenths of a second
SilenceThreshold == 30

\* Interrupts with <= in the place of <
InterruptsOrTouches(utterances, i) == utterances[i].start <= utterances[i - 1].end

\* utterances[i]['start'] < utterances[i-1]['end']
Interrupts(utterances, i) == utterances[i].start < utterances[i - 1].end

\* Silent with >= in the place of >
SilentOrEqual(utterances, i) ==
    utterances[i].start - utterances[i - 1].end >= SilenceThreshold

\* utterances[i]['start'] - utterances[i-1]['end'] > 3.0
Silent(utterances, i) ==
    utterances[i].start - utterances[i - 1].end > SilenceThreshold

count_interruptions(utterances) ==
    Cardinality({i \in 2..Len(utterances) : Interrupts(utterances, i)})

count_silence_periods(utterances) ==
    Cardinality({i \in 2..Len(utterances) : Silent(utterances, i)})

\* sum(u['end'] - u['start'] for u in utterances if u['speaker'] == role)
RECURSIVE talk_time(_, _)
talk_time(utterances, role) ==
    IF utterances = <<>> THEN 0
    ELSE (IF utterances[1].speaker = role
          THEN utterances[1].end - utterances[1].start ELSE 0)
         + talk_time(Tail(utterances), role)

\* talk_ratio without the factor 100
talk_ratio_unscaled(utterances) ==
    LET employee_time == talk_time(utterances, "employee")
        customer_time == talk_time(utterances, "customer")
        total_time    == employee_time + customer_time
    IN  IF total_time > 0
        THEN [employee |-> Frac(employee_time, total_time),
              customer |-> Frac(customer_time, total_time)]
        ELSE <<>>

talk_ratio(utterances) ==
    LET employee_time == talk_time(utterances, "employee")
        customer_time == talk_time(utterances, "customer")
        total_time    == employee_time + customer_time
    IN  IF total_time > 0
        THEN [employee |-> Frac(100 * employee_time, total_time),
              customer |-> Frac(100 * customer_time, total_time)]
        ELSE <<>>

\* [u['text'].lower() for u in utterances if u['speaker'] == 'employee']
RECURSIVE EmployeeLowerTexts(_)
EmployeeLowerTexts(utterances) ==
    IF utterances = <<>> THEN <<>>
    ELSE (IF utterances[1].speaker = "employee"
          THEN <<lower(utterances[1].text)>> ELSE <<>>)
         \o EmployeeLowerTexts(Tail(utterances))

\* professionalism_score with a word counted once however often it occurs
professionalism_score_present(employee_text) ==
    LET prof_count   == CountPresent(professional_indicators, employee_text)
        unprof_count == CountPresent(unprofessional_indicators, employee_text)
    IN  IF prof_count + unprof_count > 0
        THEN Frac(100 * prof_count, prof_count + unprof_count)
        ELSE Frac(0, 1)

professionalism_score(employee_text) ==
    LET prof_count   == CountAll(professional_indicators, employee_text)
        unprof_count == CountAll(unprofessional_indicators, employee_text)
    IN  IF prof_count + unprof_count > 0
        THEN Frac(100 * prof_count, prof_count + unprof_count)
        ELSE Frac(0, 1)

\* _analyze_interaction_quality raises TypeError: there are utterances, and
\* the loops and sums over them meet an end that is None
quality_raises(transcription_result) ==
    \E i \in 1..Len(transcription_result.utterances) :
        "end" \notin DOMAIN transcription_result.utterances[i]

analyze_interaction_quality(transcription_result) ==
    LET utterances    == transcription_result.utterances
        employee_text == join(EmployeeLowerTexts(utterances))
    IN  IF utterances = <<>>
        THEN [interruptions |-> 0, silence_periods |-> 0, talk_ratio |-> <<>>,
              average_response_time |-> 0, empathy_indicators |-> 0,
              professionalism_score |-> Frac(0, 1)]
        ELSE [interruptions         |-> count_interruptions(utterances),
              silence_periods       |-> count_silence_periods(utterances),
              talk_ratio            |-> talk_ratio(utterances),
              average_response_time |-> 0,
              empathy_indicators    |-> CountAll(empathy_phrases, employee_text),
              professionalism_score |-> professionalism_score(employee_text)]

---------------------------------------------------------------------------
(* transcribe_with_advanced_features *)

Init ==
    /\ call_direction \in Directions
    /\ response \in Responses
    /\ result = <<>>
    /\ pc = "transcribe"
    /\ insights = None
    /\ duration_str = None
    /\ seconds = None
    /\ PipelineIdle

\* open(audio_path) or transcribe_file raises: the except clause returns
TranscribeFails ==
    /\ pc = "transcribe"
    /\ result' = [success |-> FALSE, error |-> "transcribe_file"]
    /\ pc' = "done"
    /\ UNCHANGED <<call_direction, response, insights, duration_str, seconds, pipeline_vars>>

ProcessAdvancedResponse ==
    /\ pc = "transcribe"
    /\ result' = process_advanced_response(response, call_direction)
    /\ pc' = "script_compliance"
    /\ UNCHANGED <<call_direction, response, insights, duration_str, seconds, pipeline_vars>>

CheckScriptCompliance ==
    /\ pc = "script_compliance"
    /\ result' = SetItem(result, "script_compliance", check_script_compliance(result))
    /\ pc' = "sales_metrics"
    /\ UNCHANGED <<call_direction, response, insights, duration_str, seconds, pipeline_vars>>

ExtractSalesMetrics ==
    /\ pc = "sales_metrics"
    /\ result' = SetItem(result, "sales_metrics", extract_sales_metrics(result))
    /\ pc' = "quality_metrics"
    /\ UNCHANGED <<call_direction, response, insights, duration_str, seconds, pipeline_vars>>

\* an exception of _analyze_interaction_quality is caught by the except
\* clause of transcribe_with_advanced_features, which returns its own dict;
\* "TypeError" stands for str(e), the message of the TypeError
AnalyzeInteractionQuality ==
    /\ pc = "quality_metrics"
    /\ result' = IF quality_raises(result)
                 THEN [success |-> FALSE, error |-> "TypeError"]
                 ELSE SetItem(result, "quality_metrics",
                              analyze_interaction_quality(result))
    /\ pc' = "done"
    /\ UNCHANGED <<call_direction, response, insights, duration_str, seconds, pipeline_vars>>

Next ==
    \/ TranscribeFails
    \/ ProcessAdvancedResponse
    \/ CheckScriptCompliance
    \/ ExtractSalesMetrics
    \/ AnalyzeInteractionQuality

Spec == Init /\ [][Next]_vars

---------------------------------------------------------------------------
(* EnhancedHybridPipeline._generate_insights_report *)

DigitChars == <<"0", "1", "2", "3", "4", "5", "6", "7", "8", "9">>

\* str(n) for an int n >= 0
RECURSIVE Str(_)
Str(n) ==
    IF n < 10 THEN DigitChars[n + 1] ELSE Str(n \div 10) \o DigitChars[(n % 10) + 1]

\* needs_script_coaching with <= in the place of <
needs_script_coaching_at_80(compliance) == FracLeq(compliance.score, Frac(80, 1))

\* compliance['score'] < 80
needs_script_coaching(compliance) == ~FracLeq(Frac(80, 1), compliance.score)

\* needs_follow_up with <= in the place of <
needs_follow_up_at_zero(sentiment) ==
    LET customer == IF "customer" \in DOMAIN sentiment.by_speaker
                    THEN sentiment.by_speaker.customer ELSE Frac(0, 1)
    IN  FracLeq(customer, Frac(0, 1))

\* sentiment['by_speaker'].get('customer', 0) < 0
needs_follow_up(sentiment) ==
    LET customer == IF "customer" \in DOMAIN sentiment.by_speaker
                    THEN sentiment.by_speaker.customer ELSE Frac(0, 1)
    IN  ~FracLeq(Frac(0, 1), customer)

generate_insights_report(transcription) ==
    LET compliance == transcription.script_compliance
        sales      == transcription.sales_metrics
        sentiment  == transcription.sentiment
        quality    == transcription.quality_metrics
    IN  [key_findings |-> <<>>,
         action_items |->
             IF needs_follow_up(sentiment)
             THEN << [priority |-> "high",
                      action   |-> "Follow up with customer",
                      reason   |-> "Negative sentiment detected"] >>
             ELSE <<>>,
         coaching_opportunities |->
             (IF needs_script_coaching(compliance)
              THEN << [area           |-> "Script Adherence",
                       score          |-> compliance.score,
                       missing        |-> compliance.missing_components,
                       recommendation |-> "Review call script training"] >>
              ELSE <<>>)
             \o (IF sales.upsell_attempted /\ ~sales.upsell_accepted
                 THEN << [area           |-> "Upsell Technique",
                          observation    |-> "Upsell attempted but not accepted",
                          recommendation |-> "Review upsell approach and timing"] >>
                 ELSE <<>>)
             \o (IF quality.interruptions > 3
                 THEN << [area           |-> "Active Listening",
                          observation    |-> Str(quality.interruptions)
                                             \o " interruptions detected",
                          recommendation |-> "Practice active listening techniques"] >>
                 ELSE <<>>),
         business_intelligence |->
             [services_discussed    |-> sales.services_mentioned,
              price_sensitivity     |-> IF sales.price_discussed THEN "high" ELSE "low",
              conversion_likelihood |-> IF sales.appointment_scheduled
                                        THEN "high" ELSE "medium",
              customer_topics       |-> transcription.topics]]

\* The transcription dicts handed to _generate_insights_report, with the
\* fields it reads

ReportCompliances ==
    {[score |-> Frac(0, 1),
      missing_components |-> <<"greeting", "appointment_confirm", "upsell", "closing">>],
     [score |-> Frac(75, 1), missing_components |-> <<"closing">>],
     [score |-> Frac(80, 1), missing_components |-> <<"closing">>],
     [score |-> Frac(100, 1), missing_components |-> <<>>]}

ReportSales ==
    { [appointment_scheduled |-> appointed,
       services_mentioned    |-> IF priced THEN <<"oil change">> ELSE <<>>,
       price_discussed       |-> priced,
       upsell_attempted      |-> upsell[1],
       upsell_accepted       |-> upsell[2]]
      : appointed \in BOOLEAN, priced \in BOOLEAN,
        upsell \in {<<FALSE, FALSE>>, <<TRUE, FALSE>>, <<TRUE, TRUE>>} }

ReportBySpeaker ==
    {<<>>,
     [employee |-> Frac(-1, 1)],
     [employee |-> Frac(1, 1), customer |-> Frac(-1, 2)],
     [employee |-> Frac(-1, 1), customer |-> Frac(0, 1)],
     [employee |-> Frac(0, 1), customer |-> Frac(1, 2)]}

ReportInterruptions == {0, 3, 4, 12}

Reports ==
    { [success           |-> TRUE,
       script_compliance |-> compliance,
       sales_metrics     |-> sales,
       sentiment         |-> [overall |-> Frac(0, 1), by_speaker |-> by_speaker,
                              timeline |-> <<>>],
       quality_metrics   |-> [interruptions |-> interruptions],
       topics            |-> sales.services_mentioned]
      : compliance \in ReportCompliances, sales \in ReportSales,
        by_speaker \in ReportBySpeaker, interruptions \in ReportInterruptions }

\* d without its key k
DelItem(d, k) == [key \in DOMAIN d \ {k} |-> d[key]]

\* a dict that lacks one of the keys _generate_insights_report reads
PartialReports ==
    LET full == [success           |-> TRUE,
                 script_compliance |-> [score |-> Frac(100, 1),
                                        missing_components |-> <<>>],
                 sales_metrics     |-> [appointment_scheduled |-> FALSE,
                                        services_mentioned    |-> <<>>,
                                        price_discussed       |-> FALSE,
                                        upsell_attempted      |-> FALSE,
                                        upsell_accepted       |-> FALSE],
                 sentiment         |-> [overall |-> Frac(0, 1), by_speaker |-> <<>>,
                                        timeline |-> <<>>],
                 quality_metrics   |-> [interruptions |-> 0],
                 topics            |-> <<>>]
    IN  { DelItem(full, k) : k \in {"script_compliance", "sales_metrics",
                                    "sentiment", "quality_metrics", "topics"} }
        \cup { [full EXCEPT !.script_compliance = DelItem(@, "score")],
               [full EXCEPT !.sales_metrics = DelItem(@, "upsell_attempted")],
               [full EXCEPT !.sentiment = DelItem(@, "by_speaker")],
               [full EXCEPT !.quality_metrics = DelItem(@, "interruptions")] }

\* a subscript of _generate_insights_report raises KeyError: the keys are
\* read in this order, upsell_accepted and missing_components only behind
\* the tests that guard them
insights_raises(transcription) ==
    \/ "script_compliance" \notin DOMAIN transcription
    \/ "score" \notin DOMAIN transcription.script_compliance
    \/ /\ needs_script_coaching(transcription.script_compliance)
       /\ "missing_components" \notin DOMAIN transcription.script_compliance
    \/ "sales_metrics" \notin DOMAIN transcription
    \/ "upsell_attempted" \notin DOMAIN transcription.sales_metrics
    \/ /\ transcription.sales_metrics.upsell_attempted
       /\ "upsell_accepted" \notin DOMAIN transcription.sales_metrics
    \/ "sentiment" \notin DOMAIN transcription
    \/ "by_speaker" \notin DOMAIN transcription.sentiment
    \/ "quality_metrics" \notin DOMAIN transcription
    \/ "interruptions" \notin DOMAIN transcription.quality_metrics
    \/ ~({"services_mentioned", "price_discussed", "appointment_scheduled"}
             \subseteq DOMAIN transcription.sales_metrics)
    \/ "topics" \notin DOMAIN transcription

\* the exception that leaves _generate_insights_report in the place of a dict
KeyError == [py |-> "KeyError"]

InitInsights ==
    /\ call_direction = "inbound"
    /\ response = None
    /\ result \in Reports \cup PartialReports
    /\ pc = "insights"
    /\ insights = None
    /\ duration_str = None
    /\ seconds = None
    /\ PipelineIdle

GenerateInsightsReport ==
    /\ pc = "insights"
    /\ IF insights_raises(result)
       THEN insights' = KeyError /\ pc' = "raised"
       ELSE insights' = generate_insights_report(result) /\ pc' = "reported"
    /\ UNCHANGED <<call_direction, response, result, duration_str, seconds, pipeline_vars>>

NextInsights == GenerateInsightsReport

SpecInsights == InitInsights /\ [][NextInsights]_vars

\* EnhancedHybridPipeline.process_call_complete, from transcribe_audio on:
\* the dict of transcribe_with_advanced_features, when it reports success,
\* is handed to _generate_insights_report
InsightsOfCall ==
    /\ pc = "done"
    /\ result.success
    /\ insights' = generate_insights_report(result)
    /\ pc' = "reported"
    /\ UNCHANGED <<call_direction, response, result, duration_str, seconds, pipeline_vars>>

NextEndToEnd ==
    \/ TranscribeFails
    \/ ProcessAdvancedResponse
    \/ CheckScriptCompliance
    \/ ExtractSalesMetrics
    \/ AnalyzeInteractionQuality
    \/ InsightsOfCall

SpecEndToEnd == Init /\ [][NextEndToEnd]_vars

---------------------------------------------------------------------------
(* parse_duration of src/src/scrapers/final_scraper.py *)

MaxDurationParts == 4

\* what stands between the colons of a duration string
DurationFields == {"", "0", "00", "5", "23", "x", "-3", " 7"}

\* the strings of n fields
DurationStrings(n) == { join_colon(f) : f \in [1..n -> DurationFields] }

\* s.strip()
RECURSIVE strip(_)
strip(s) ==
    IF s # "" /\ CharAt(s, 1) \in Spaces THEN strip(SubSeq(s, 2, Len(s)))
    ELSE IF s # "" /\ CharAt(s, Len(s)) \in Spaces THEN strip(SubSeq(s, 1, Len(s) - 1))
    ELSE s

\* the value of a string of decimal digits
RECURSIVE DigitsValue(_)
DigitsValue(s) ==
    IF s = "" THEN 0
    ELSE 10 * DigitsValue(SubSeq(s, 1, Len(s) - 1))
         + (CHOOSE d \in 0..9 : DigitChars[d + 1] = CharAt(s, Len(s)))

\* int(s): the value in a one-element list, the empty list for ValueError;
\* white space around the number and a sign before it are accepted
int(s) ==
    LET t      == strip(s)
        signed == CharAt(t, 1) \in {"+", "-"}
        digits == IF signed THEN SubSeq(t, 2, Len(t)) ELSE t
    IN  IF digits # "" /\ RunEnd(digits, 1, Digits) = Len(digits) + 1
        THEN <<(IF CharAt(t, 1) = "-" THEN -DigitsValue(digits) ELSE DigitsValue(digits))>>
        ELSE <<>>

\* s.split(':')
RECURSIVE split_colon(_)
split_colon(s) ==
    IF Occurrences(s, ":", 1) = {} THEN <<s>>
    ELSE LET at == Min(Occurrences(s, ":", 1))
         IN  <<SubSeq(s, 1, at - 1)>> \o split_colon(SubSeq(s, at + 1, Len(s)))

\* parse_duration with the minutes of a string of two parts not multiplied
parse_duration_minutes_as_seconds(s) ==
    LET parts == split_colon(s)
        n     == [i \in 1..Len(parts) |-> int(parts[i])]
    IN  IF s = "" THEN 0
        ELSE IF Len(parts) = 2
        THEN (IF n[1] # <<>> /\ n[2] # <<>> THEN n[1][1] + n[2][1] ELSE 0)
        ELSE IF Len(parts) = 3
        THEN (IF n[1] # <<>> /\ n[2] # <<>> /\ n[3] # <<>>
              THEN n[1][1] * 3600 + n[2][1] * 60 + n[3][1] ELSE 0)
        ELSE (IF int(s) # <<>> THEN int(s)[1] ELSE 0)

\* the bare except turns the ValueError of any int() into 0
parse_duration(s) ==
    LET parts == split_colon(s)
        n     == [i \in 1..Len(parts) |-> int(parts[i])]
    IN  IF s = "" THEN 0
        ELSE IF Len(parts) = 2
        THEN (IF n[1] # <<>> /\ n[2] # <<>> THEN n[1][1] * 60 + n[2][1] ELSE 0)
        ELSE IF Len(parts) = 3
        THEN (IF n[1] # <<>> /\ n[2] # <<>> /\ n[3] # <<>>
              THEN n[1][1] * 3600 + n[2][1] * 60 + n[3][1] ELSE 0)
        ELSE (IF int(s) # <<>> THEN int(s)[1] ELSE 0)

InitDuration ==
    /\ call_direction = "inbound"
    /\ response = None
    /\ result = <<>>
    /\ insights = None
    /\ \E n \in 1..MaxDurationParts : duration_str \in DurationStrings(n)
    /\ seconds = None
    /\ PipelineIdle
    /\ pc = "parse_duration"

ParseDuration ==
    /\ pc = "parse_duration"
    /\ seconds' = parse_duration(duration_str)
    /\ pc' = "parsed"
    /\ UNCHANGED <<call_direction, response, result, insights, duration_str, pipeline_vars>>

NextDuration == ParseDuration

SpecDuration == InitDuration /\ [][NextDuration]_vars

---------------------------------------------------------------------------
(* FinalHybridPipeline and EnhancedHybridPipeline of src/src/pipelines *)

MaxRuns == 2

\* the CallSid of the calls the upstream call list knows
Calls == {"CA1", "CA2", "CA3"}

\* their convertedDuration
CallDurations == ("CA1" :> "0:45") @@ ("CA2" :> "5:23") @@ ("CA3" :> "0:20")

\* a call needs more than this many seconds to count as recorded
MinRecordingSeconds == 30

\* batch_size of run_pipeline: a batch of one, and the 5 of main()
BatchSizes == {1, 5}

\* FinalHybridPipeline._parse_duration of a string; no except clause
\* here, the durations of Calls are well formed
pipeline_parse_duration(duration) ==
    LET parts == split_colon(duration)
    IN  IF duration = "" \/ duration = "0:00" THEN 0
        ELSE IF Len(parts) = 2 THEN int(parts[1])[1] * 60 + int(parts[2])[1]
        ELSE IF Len(parts) = 3
        THEN int(parts[1])[1] * 3600 + int(parts[2])[1] * 60 + int(parts[3])[1]
        ELSE 0

\* fetch_calls_batch: every listed call with a recording is upserted with
\* status 'pending_download', whatever row the table held for it
fetch_calls_batch(table, docs) ==
    [c \in DOMAIN table \cup
            {d \in docs : pipeline_parse_duration(CallDurations[d]) > MinRecordingSeconds}
        |-> IF c \in docs THEN "pending_download" ELSE table[c]]

\* select * from calls where status = 'pending_download' limit batch_size;
\* the order of the rows is the database's choice
select_pending(table, batch_size) ==
    LET pending == {c \in DOMAIN table : table[c] = "pending_download"}
        n       == IF Cardinality(pending) < batch_size
                   THEN Cardinality(pending) ELSE batch_size
    IN  {rows \in [1..n -> pending] :
            \A i, j \in 1..n : rows[i] = rows[j] => i = j}

\* download_call_audio_mcp: returns the mock path, status 'downloaded'
download_call_audio_mcp(table, call_id) ==
    [table EXCEPT ![call_id] = "downloaded"]

\* FinalHybridPipeline.process_call_complete.  transcribed: transcribe_audio
\* returned success; analysis: what analyze_call returned, the parsed json
\* or {"error": ...}; stored: the insert into call_analysis went through.
\* Yields the calls table, whether a call_analysis row was added, and the
\* dict returned.
process_call_complete(table, call_id, transcribed, analysis, stored) ==
    LET downloaded == download_call_audio_mcp(table, call_id)
        stage1     == ("download" :> "completed")
        stage2     == stage1 @@ ("transcription" :>
                          IF transcribed THEN "completed" ELSE "failed")
        stage3     == stage2 @@ ("analysis" :>
                          IF analysis # "error" THEN "completed" ELSE "failed")
    IN  IF ~transcribed
        THEN [calls  |-> [downloaded EXCEPT ![call_id] = "error"],
              insert |-> FALSE,
              result |-> [call_id |-> call_id, success |-> FALSE,
                          stages |-> stage2, error |-> "Transcription failed"]]
        ELSE IF ~stored
        THEN [calls  |-> [downloaded EXCEPT ![call_id] = "error"],
              insert |-> FALSE,
              result |-> [call_id |-> call_id, success |-> FALSE,
                          stages |-> stage3, error |-> "insert failed"]]
        ELSE [calls  |-> [downloaded EXCEPT ![call_id] = "analyzed"],
              insert |-> TRUE,
              result |-> [call_id |-> call_id, success |-> TRUE,
                          stages |-> stage3, analysis |-> analysis]]

\* EnhancedHybridPipeline.process_call_complete: its except clause writes
\* nothing to the calls table, and it adds no call_analysis row
enhanced_process_call_complete(table, call_id, transcribed, analysis) ==
    LET downloaded == download_call_audio_mcp(table, call_id)
    IN  IF ~transcribed
        THEN [calls  |-> downloaded,
              insert |-> FALSE,
              result |-> [success |-> FALSE, error |-> "Transcription failed"]]
        ELSE [calls  |-> [downloaded EXCEPT ![call_id] = "analyzed"],
              insert |-> FALSE,
              result |-> [success |-> TRUE, call_id |-> call_id,
                          analysis |-> analysis]]

InitPipeline ==
    /\ call_direction = "inbound"
    /\ response = None
    /\ result = <<>>
    /\ insights = None
    /\ duration_str = None
    /\ seconds = None
    /\ pipeline \in {"final", "enhanced"}
    /\ calls = <<>>
    /\ call_analysis = [c \in Calls |-> 0]
    /\ pending_calls = <<>>
    /\ results = <<>>
    /\ runs = 0
    /\ pc = "idle"

\* run_pipeline, steps 1 and 2: the upstream list answers with docs
RunPipeline ==
    /\ pc = "idle"
    /\ runs < MaxRuns
    /\ \E docs \in SUBSET Calls, batch_size \in BatchSizes :
          /\ calls' = fetch_calls_batch(calls, docs)
          /\ pending_calls' \in select_pending(calls', batch_size)
    /\ results' = <<>>
    /\ runs' = runs + 1
    /\ pc' = "processing"
    /\ UNCHANGED <<call_direction, response, result, insights, duration_str, seconds,
                   pipeline, call_analysis>>

\* run_pipeline when fetch_calls_batch raises (no 200 from the call list):
\* the except clause logs and the run is over
RunPipelineFails ==
    /\ pc = "idle"
    /\ runs < MaxRuns
    /\ runs' = runs + 1
    /\ UNCHANGED <<call_direction, response, result, insights, duration_str, seconds,
                   pipeline, calls, call_analysis, pending_calls, results, pc>>

\* run_pipeline, step 3: one turn of the loop over pending_calls
ProcessCallComplete ==
    /\ pc = "processing"
    /\ Len(results) < Len(pending_calls)
    /\ \E transcribed \in BOOLEAN, analysis \in {"json", "error"}, stored \in BOOLEAN :
          LET call_id == pending_calls[Len(results) + 1]
              done    == IF pipeline = "final"
                         THEN process_call_complete(calls, call_id, transcribed,
                                                    analysis, stored)
                         ELSE enhanced_process_call_complete(calls, call_id,
                                                             transcribed, analysis)
          IN  /\ calls' = done.calls
              /\ call_analysis' =
                     IF done.insert
                     THEN [call_analysis EXCEPT ![call_id] = @ + 1]
                     ELSE call_analysis
              /\ results' = Append(results, done.result)
    /\ UNCHANGED <<call_direction, response, result, insights, duration_str, seconds,
                   pipeline, pending_calls, runs, pc>>

\* run_pipeline, step 4: the loop is over, the summary is logged
RunPipelineSummary ==
    /\ pc = "processing"
    /\ Len(results) = Len(pending_calls)
    /\ pc' = "idle"
    /\ UNCHANGED <<call_direction, response, result, insights, duration_str, seconds,
                   pipeline_vars>>

NextPipeline ==
    \/ RunPipeline
    \/ RunPipelineFails
    \/ ProcessCallComplete
    \/ RunPipelineSummary

SpecPipeline == InitPipeline /\ [][NextPipeline]_vars

---------------------------------------------------------------------------
(* Properties *)

SeqToSet(seq) == {seq[i] : i \in 1..Len(seq)}

\* _process_advanced_response has returned
Processed == pc # "transcribe" /\ result.success

\* _check_script_compliance has returned
ComplianceChecked == "script_compliance" \in DOMAIN result

\* _analyze_interaction_quality has returned
QualityAnalyzed == "quality_metrics" \in DOMAIN result

EmployeeText == lower(join(result.speakers.employee.utterances))

\* C1: found_components and missing_components have no duplicates, are
\* disjoint, together are the configured components, details has one entry
\* per component, and score = 100 * |found_components| / |components|.
C1_CompliancePartition ==
    ComplianceChecked =>
        LET c       == result.script_compliance
            all     == DOMAIN script_keywords
            found   == SeqToSet(c.found_components)
            missing == SeqToSet(c.missing_components)
        IN  /\ Cardinality(found) = Len(c.found_components)
            /\ Cardinality(missing) = Len(c.missing_components)
            /\ found \cap missing = {}
            /\ found \cup missing = all
            /\ DOMAIN c.details = all
            /\ c.score.num * Cardinality(all) = 100 * Cardinality(found) * c.score.den

C1_Witness ==
    /\ ComplianceChecked
    /\ Len(result.script_compliance.found_components) = 2
    /\ Len(result.script_compliance.missing_components) = 2

\* C2: sentiment.overall is a number in [-1, 1], never None, and every value
\* present in sentiment.by_speaker is in [-1, 1].
C2_SentimentBounded ==
    Processed =>
        LET sentiment == result.sentiment
        IN  /\ sentiment.overall # None
            /\ IsFrac(sentiment.overall)
            /\ FracLeq(Frac(-1, 1), sentiment.overall)
            /\ FracLeq(sentiment.overall, Frac(1, 1))
            /\ \A role \in DOMAIN sentiment.by_speaker :
                   /\ FracLeq(Frac(-1, 1), sentiment.by_speaker[role])
                   /\ FracLeq(sentiment.by_speaker[role], Frac(1, 1))

C2_Witness == Processed /\ result.sentiment.overall = Frac(1, 3)

\* C3: with utterance-level diarization, channel 0 is the employee and
\* channel 1 the customer on an inbound call, the other way round on an
\* outbound call, and speakers.*.channel report the same mapping.
C3_ChannelRoles ==
    (Processed /\ response.utterances # <<>>) =>
        LET inbound == call_direction = "inbound"
        IN  /\ Len(result.utterances) = Len(response.utterances)
            /\ \A i \in 1..Len(response.utterances) :
                   LET channel == response.utterances[i].channel
                   IN  /\ result.utterances[i].channel = channel
                       /\ result.utterances[i].speaker =
                              IF inbound = (channel = 0) THEN "employee" ELSE "customer"
            /\ result.speakers.employee.channel = (IF inbound THEN 0 ELSE 1)
            /\ result.speakers.customer.channel = (IF inbound THEN 1 ELSE 0)

C3_Witness ==
    /\ Processed
    /\ call_direction = "outbound"
    /\ {response.utterances[i].channel : i \in 1..Len(response.utterances)} = {0, 1}

\* C4: a component is in found_components exactly when the lower-cased
\* employee text contains the lower-cased form of one of its trigger
\* phrases; details then names the first such phrase, and otherwise is
\* found = false with the expected phrases.
C4_LowerCasedTriggerFound ==
    ComplianceChecked =>
        \A component \in DOMAIN script_keywords :
            LET keywords == script_keywords[component]
                hits     == {i \in 1..Len(keywords) :
                                In(lower(keywords[i]), EmployeeText)}
                c        == result.script_compliance
            IN  /\ (component \in SeqToSet(c.found_components)) <=> (hits # {})
                /\ hits # {} =>
                       c.details[component] =
                           [found |-> TRUE, keyword |-> keywords[Min(hits)]]
                /\ hits = {} =>
                       c.details[component] = [found |-> FALSE, expected |-> keywords]

\* the employee says the five phrases of the script
ScenarioA ==
    /\ ComplianceChecked
    /\ LET text == EmployeeText
       IN  \A phrase \in {"thank you for calling", "how can i help", "we recommend",
                          "scheduled for", "anything else"} :
               In(phrase, text)

C6_NoEmployeeNoCompliance ==
    (ComplianceChecked /\ result.speakers.employee.utterances = <<>>) =>
        /\ result.script_compliance.score = Frac(0, 1)
        /\ result.script_compliance.found_components = <<>>

C6_Witness ==
    /\ ComplianceChecked
    /\ result.speakers.employee.utterances = <<>>
    /\ result.speakers.customer.utterances # <<>>
    /\ In("thank you for calling", lower(result.transcript))

\* the number of words of the list that occur in the text
PresentWords(words, text) ==
    Cardinality({i \in 1..Len(words) : In(words[i], text)})

\* C7, as claimed: overall = (P - N) / (P + N) with P and N the numbers of
\* occurrences of the positive and of the negative words.
C7_OccurrenceCounts ==
    Processed =>
        LET P == CountAll(positive_words, lower(response.transcript))
            N == CountAll(negative_words, lower(response.transcript))
        IN  P + N > 0 => result.sentiment.overall = Frac(P - N, P + N)

\* C7, amended: overall = (P - N) / (P + N) with P and N the numbers of
\* positive and of negative words that occur in the lower-cased transcript
\* at least once.
C7_PresenceCounts ==
    Processed =>
        LET text == lower(response.transcript)
            P    == PresentWords(positive_words, text)
            N    == PresentWords(negative_words, text)
        IN  P + N > 0 => result.sentiment.overall = Frac(P - N, P + N)

C7_Witness ==
    /\ Processed
    /\ PresentWords(positive_words, lower(response.transcript)) = 1
    /\ PresentWords(negative_words, lower(response.transcript)) = 1
    /\ CountAll(positive_words, lower(response.transcript)) = 2

\* C8: a transcript with no positive and no negative word gives overall =
\* 0.0 exactly, with no error.
C8_NoLexiconWordZero ==
    LET text == lower(response.transcript)
    IN  (/\ pc # "transcribe"
         /\ "error" \notin DOMAIN result
         /\ PresentWords(positive_words, text) = 0
         /\ PresentWords(negative_words, text) = 0)
        => /\ result.success
           /\ result.sentiment.overall = Frac(0, 1)

C8_Witness ==
    /\ Processed
    /\ response.transcript # ""
    /\ PresentWords(positive_words, lower(response.transcript)) = 0
    /\ PresentWords(negative_words, lower(response.transcript)) = 0

\* C9: for a diarized response, by_speaker has an entry for each role, the
\* sentiment formula applied to the concatenation of the role's texts.
C9_BySpeakerPerRole ==
    (Processed /\ response.utterances # <<>>) =>
        /\ DOMAIN result.sentiment.by_speaker = {"employee", "customer"}
        /\ \A role \in {"employee", "customer"} :
               result.sentiment.by_speaker[role] =
                   sentiment_overall(lower(join(result.speakers[role].utterances)))

\* the number of utterances that start before the one before them ends
RECURSIVE OverlapsWithPrevious(_)
OverlapsWithPrevious(utterances) ==
    IF Len(utterances) < 2 THEN 0
    ELSE (IF utterances[2].start < utterances[1].end THEN 1 ELSE 0)
         + OverlapsWithPrevious(Tail(utterances))

Times(utterances) ==
    [i \in 1..Len(utterances) |-> <<utterances[i].start, utterances[i].end>>]

\* C10: interruptions is the number of i >= 1 with utterance[i].start <
\* utterance[i-1].end; [0,5], [5.2,12] give 0 and [0,5], [4,12] give 1.
C10_Interruptions ==
    QualityAnalyzed =>
        /\ result.quality_metrics.interruptions =
               OverlapsWithPrevious(result.utterances)
        /\ Times(result.utterances) = <<<<0, 50>>, <<52, 120>>>> =>
               result.quality_metrics.interruptions = 0
        /\ Times(result.utterances) = <<<<0, 50>>, <<40, 120>>>> =>
               result.quality_metrics.interruptions = 1

\* the third utterance overlaps the first and not the second
C10_Witness ==
    /\ QualityAnalyzed
    /\ Times(result.utterances) = <<<<0, 50>>, <<40, 45>>, <<47, 120>>>>
    /\ result.quality_metrics.interruptions = 1

\* the number of utterances that start more than 3.0 s after the one before
\* them ends
RECURSIVE GapsOverThreeSeconds(_)
GapsOverThreeSeconds(utterances) ==
    IF Len(utterances) < 2 THEN 0
    ELSE (IF utterances[2].start - utterances[1].end > 30 THEN 1 ELSE 0)
         + GapsOverThreeSeconds(Tail(utterances))

\* C11: silence_periods is the number of i >= 1 with utterance[i].start -
\* utterance[i-1].end > 3.0 s; a gap of 3.5 s gives 1, a gap of 2.9 s gives 0
\* and a gap of exactly 3.0 s is not counted.
C11_SilencePeriods ==
    QualityAnalyzed =>
        /\ result.quality_metrics.silence_periods =
               GapsOverThreeSeconds(result.utterances)
        /\ Times(result.utterances) = <<<<0, 50>>, <<85, 120>>>> =>
               result.quality_metrics.silence_periods = 1
        /\ Times(result.utterances) = <<<<0, 50>>, <<79, 120>>>> =>
               result.quality_metrics.silence_periods = 0
        /\ Times(result.utterances) = <<<<0, 50>>, <<80, 120>>>> =>
               result.quality_metrics.silence_periods = 0

\* two utterances with a gap of exactly 3.0 s between them
C11_Witness ==
    /\ QualityAnalyzed
    /\ Times(result.utterances) = <<<<0, 50>>, <<80, 120>>>>
    /\ result.quality_metrics.silence_periods = 0

\* the time from start to end, summed over the utterances
RECURSIVE Duration(_)
Duration(utterances) ==
    IF utterances = <<>> THEN 0
    ELSE utterances[1].end - utterances[1].start + Duration(Tail(utterances))

\* x + y = n, for fractions x and y
SumIs(x, y, n) == x.num * y.den + y.num * x.den = n * x.den * y.den

\* the two shares add up to 100 whenever some time is spoken
TalkRatioSumsTo100 ==
    Duration(result.utterances) > 0 =>
        LET ratio == result.quality_metrics.talk_ratio
        IN  /\ DOMAIN ratio = {"employee", "customer"}
            /\ FracLeq(Frac(0, 1), ratio.employee)
            /\ FracLeq(Frac(0, 1), ratio.customer)
            /\ SumIs(ratio.employee, ratio.customer, 100)

\* C12, as claimed: talk_ratio.employee + talk_ratio.customer = 100 when the
\* combined duration is > 0, and both are 0 when it is 0, the case of no
\* utterances included.
C12_TalkRatioZeroFilled ==
    QualityAnalyzed =>
        /\ TalkRatioSumsTo100
        /\ Duration(result.utterances) = 0 =>
               LET ratio == result.quality_metrics.talk_ratio
               IN  /\ DOMAIN ratio = {"employee", "customer"}
                   /\ ratio.employee = Frac(0, 1)
                   /\ ratio.customer = Frac(0, 1)

\* C12, amended: talk_ratio.employee + talk_ratio.customer = 100 when the
\* combined duration is > 0, and talk_ratio has no entry at all when it is
\* 0, the case of no utterances included.
C12_TalkRatioEmpty ==
    QualityAnalyzed =>
        /\ TalkRatioSumsTo100
        /\ Duration(result.utterances) = 0 =>
               result.quality_metrics.talk_ratio = <<>>

\* an utterance list of no duration
C12_Witness ==
    /\ QualityAnalyzed
    /\ result.utterances # <<>>
    /\ Duration(result.utterances) = 0
    /\ result.quality_metrics.talk_ratio = <<>>

\* shares that are not whole numbers
C12_WitnessShares ==
    /\ QualityAnalyzed
    /\ Duration(result.utterances) > 0
    /\ result.quality_metrics.talk_ratio.employee.den > 1
    /\ result.quality_metrics.talk_ratio.customer.num > 0

\* _extract_sales_metrics has returned
SalesExtracted == "sales_metrics" \in DOMAIN result

\* C13: outcome is 'appointment_scheduled' iff appointment_scheduled;
\* otherwise 'quoted_service' iff a service is mentioned and a price
\* discussed; otherwise 'follow_up_needed' iff the lower-cased transcript
\* contains 'call back' or 'think about it'; otherwise 'unknown'.
C13_OutcomePriority ==
    SalesExtracted =>
        LET sales     == result.sales_metrics
            appointed == sales.appointment_scheduled
            quoted    == sales.services_mentioned # <<>> /\ sales.price_discussed
            follow_up == \/ In("call back", lower(result.transcript))
                         \/ In("think about it", lower(result.transcript))
        IN  /\ sales.outcome \in {"appointment_scheduled", "quoted_service",
                                  "follow_up_needed", "unknown"}
            /\ sales.outcome = "appointment_scheduled" <=> appointed
            /\ ~appointed =>
                   /\ sales.outcome = "quoted_service" <=> quoted
                   /\ ~quoted =>
                          /\ sales.outcome = "follow_up_needed" <=> follow_up
                          /\ ~follow_up => sales.outcome = "unknown"

\* an appointment, a quote: the appointment decides
C13_Witness ==
    /\ SalesExtracted
    /\ result.sales_metrics.appointment_scheduled
    /\ result.sales_metrics.services_mentioned # <<>>
    /\ result.sales_metrics.price_discussed
    /\ result.sales_metrics.outcome = "appointment_scheduled"

\* word occurs in text with all its characters at positions from..to
OccursWithin(word, text, from, to) ==
    \E j \in from..(to - Len(word) + 1) :
        j + Len(word) - 1 <= Len(text) /\ SubSeq(text, j, j + Len(word) - 1) = word

\* C14: upsell_attempted iff the lower-cased transcript contains a trigger
\* phrase; upsell_accepted iff moreover 'yes', 'sure', 'okay', 'sounds good'
\* or 'let's do' occurs inside the 200 characters that begin at the first
\* occurrence of the first trigger phrase, in table order, that is present;
\* hence upsell_accepted implies upsell_attempted.
C14_UpsellWindow ==
    SalesExtracted =>
        LET sales    == result.sales_metrics
            text     == lower(result.transcript)
            triggers == <<"also recommend", "while you're here", "might as well",
                          "should also", "suggest checking">>
            present  == {i \in 1..Len(triggers) : In(triggers[i], text)}
        IN  /\ sales.upsell_attempted <=> present # {}
            /\ sales.upsell_accepted <=>
                   /\ present # {}
                   /\ LET at == Min(Occurrences(text, triggers[Min(present)], 1))
                      IN  \E word \in {"yes", "sure", "okay", "sounds good", "let's do"} :
                              OccursWithin(word, text, at, at + 199)
            /\ sales.upsell_accepted => sales.upsell_attempted

\* the acceptance comes more than 200 characters after the offer
C14_Witness ==
    /\ SalesExtracted
    /\ result.sales_metrics.upsell_attempted
    /\ ~result.sales_metrics.upsell_accepted
    /\ In("also recommend", lower(result.transcript))
    /\ In("yes please", lower(result.transcript))
    /\ Find(lower(result.transcript), "yes please")
           > Find(lower(result.transcript), "also recommend") + 200

\* the price expressions of the text: a word '<digits>' followed by the word
\* 'dollars', and '$<digits>' at the end of a word
DollarsExpressions(text) ==
    { SubSeq(text, j, RunEnd(text, j, Digits) + 7) :
        j \in { i \in 1..Len(text) :
                  LET e == RunEnd(text, i, Digits)
                  IN  /\ e > i
                      /\ CharAt(text, i - 1) \in Spaces \cup {""}
                      /\ e + 7 <= Len(text)
                      /\ SubSeq(text, e, e + 7) = " dollars"
                      /\ CharAt(text, e + 8) \notin WordChars } }

DollarSignExpressions(text) ==
    { SubSeq(text, j, RunEnd(text, j + 1, Digits) - 1) :
        j \in { i \in 1..Len(text) :
                  LET e == RunEnd(text, i + 1, Digits)
                  IN  /\ CharAt(text, i) = "$"
                      /\ e > i + 1
                      /\ CharAt(text, e) \in Spaces \cup {""} } }

ScenarioD ==
    /\ SalesExtracted
    /\ result.transcript = "That will be 65 dollars for the oil change"

\* C15: a transcript with a price expression '<digits> dollars' or
\* '$<digits>' and a service keyword gives price_discussed = True, the price
\* expression in prices_mentioned and the service keyword in
\* services_mentioned; price_discussed is true exactly when prices_mentioned
\* is not empty; Scenario D lists '65 dollars' and 'oil change'.
C15_PricesAndServices ==
    SalesExtracted =>
        LET sales    == result.sales_metrics
            text     == lower(result.transcript)
            prices   == DollarsExpressions(text) \cup DollarSignExpressions(text)
            services == {"oil change", "brake", "tire", "alignment", "inspection",
                         "diagnostic", "battery", "filter", "fluid", "rotation"}
        IN  /\ sales.price_discussed <=> sales.prices_mentioned # <<>>
            /\ prices # {} => sales.price_discussed
            /\ prices \subseteq SeqToSet(sales.prices_mentioned)
            /\ \A service \in services :
                   In(service, text) => service \in SeqToSet(sales.services_mentioned)
            /\ ScenarioD =>
                   /\ sales.price_discussed
                   /\ "65 dollars" \in SeqToSet(sales.prices_mentioned)
                   /\ "oil change" \in SeqToSet(sales.services_mentioned)

\* prices in both forms, and a service
C15_Witness ==
    /\ SalesExtracted
    /\ DollarsExpressions(lower(result.transcript)) = {"65 dollars"}
    /\ DollarSignExpressions(lower(result.transcript)) = {"$89"}
    /\ "oil change" \in SeqToSet(result.sales_metrics.services_mentioned)
    /\ result.sales_metrics.prices_mentioned # <<>>

\* the response has no utterances and no word with a speaker
NoDiarization ==
    /\ response.utterances = <<>>
    /\ \A i \in 1..Len(response.words) : "speaker" \notin DOMAIN response.words[i]

\* what each analyzer reports when nobody is known to have spoken
EmptyReport ==
    /\ Processed =>
           /\ result.speakers.employee.utterances = <<>>
           /\ result.speakers.customer.utterances = <<>>
           /\ result.utterances = <<>>
    /\ ComplianceChecked =>
           /\ result.script_compliance.score = Frac(0, 1)
           /\ SeqToSet(result.script_compliance.missing_components) =
                  DOMAIN script_keywords
           /\ result.script_compliance.found_components = <<>>
    /\ QualityAnalyzed =>
           /\ result.quality_metrics.interruptions = 0
           /\ result.quality_metrics.silence_periods = 0
           /\ result.quality_metrics.empathy_indicators = 0
           /\ result.quality_metrics.professionalism_score = Frac(0, 1)
           /\ result.quality_metrics.talk_ratio = <<>>
    /\ (pc = "done" /\ Processed) =>
           ComplianceChecked /\ SalesExtracted /\ QualityAnalyzed

\* C16: with no utterances and no speaker-tagged words the analysis goes on
\* with success = True: both speakers' utterance lists are empty, the score
\* is 0 with every component missing, interruptions, silence_periods,
\* empathy_indicators and professionalism_score are 0 and talk_ratio is
\* empty; once the response is processed no step returns an error result.
C16_NoDiarizationCompletes ==
    /\ [](NoDiarization => EmptyReport)
    /\ [][(NoDiarization /\ Processed) => result'.success]_vars

\* words without speakers, analysed to the end
C16_Witness ==
    /\ NoDiarization
    /\ response.words # <<>>
    /\ pc = "done"
    /\ Processed
    /\ QualityAnalyzed

\* C17: when an analyzer fails on an input, the returned result still holds
\* the transcript and the outputs of the other analyzers, and is not a bare
\* error result.
C17_AnalyzerFailureLocal ==
    [][(pc = "quality_metrics" /\ quality_raises(result)) =>
           /\ {"transcript", "script_compliance", "sales_metrics"}
                  \subseteq DOMAIN result'
           /\ result'.transcript = result.transcript
           /\ result'.script_compliance = result.script_compliance
           /\ result'.sales_metrics = result.sales_metrics]_vars

\* _generate_insights_report has returned
Reported == pc = "reported"

\* the areas of the coaching opportunities, in their order
Areas == [i \in 1..Len(insights.coaching_opportunities) |->
             insights.coaching_opportunities[i].area]

\* C19: coaching_opportunities holds, in this order and with nothing else,
\* 'Script Adherence' naming missing_components iff score < 80, 'Upsell
\* Technique' iff upsell_attempted and not upsell_accepted, 'Active
\* Listening' iff interruptions > 3; a score of exactly 80 and exactly 3
\* interruptions trigger nothing.
C19_CoachingOpportunities ==
    Reported =>
        LET score         == result.script_compliance.score
            sales         == result.sales_metrics
            interruptions == result.quality_metrics.interruptions
        IN  /\ Areas =
                   (IF score.num < 80 * score.den
                    THEN <<"Script Adherence">> ELSE <<>>)
                   \o (IF sales.upsell_attempted /\ ~sales.upsell_accepted
                       THEN <<"Upsell Technique">> ELSE <<>>)
                   \o (IF interruptions > 3 THEN <<"Active Listening">> ELSE <<>>)
            /\ \A i \in 1..Len(Areas) :
                   Areas[i] = "Script Adherence" =>
                       insights.coaching_opportunities[i].missing =
                           result.script_compliance.missing_components
            /\ score = Frac(80, 1) => "Script Adherence" \notin SeqToSet(Areas)
            /\ interruptions = 3 => "Active Listening" \notin SeqToSet(Areas)

\* a score of exactly 80 and exactly 3 interruptions, after an upsell that
\* was not accepted
C19_Witness ==
    /\ Reported
    /\ result.script_compliance.score = Frac(80, 1)
    /\ result.quality_metrics.interruptions = 3
    /\ Areas = <<"Upsell Technique">>

\* C20: action_items holds exactly one item, of priority 'high', when
\* sentiment.by_speaker.customer < 0, and no item when that value is >= 0
\* or absent.
C20_HighPriorityAction ==
    Reported =>
        LET by_speaker == result.sentiment.by_speaker
        IN  IF "customer" \in DOMAIN by_speaker /\ by_speaker.customer.num < 0
            THEN /\ Len(insights.action_items) = 1
                 /\ insights.action_items[1].priority = "high"
            ELSE insights.action_items = <<>>

C20_Witness ==
    /\ Reported
    /\ "customer" \in DOMAIN result.sentiment.by_speaker
    /\ result.sentiment.by_speaker.customer = Frac(-1, 2)
    /\ Len(insights.action_items) = 1

\* the words that carry a speaker, in their order
RECURSIVE TaggedWords(_)
TaggedWords(words) ==
    IF words = <<>> THEN <<>>
    ELSE (IF "speaker" \in DOMAIN words[1] THEN <<words[1]>> ELSE <<>>)
         \o TaggedWords(Tail(words))

\* the word-level fallback has run on words with speakers
WordFallback ==
    /\ Processed
    /\ response.utterances = <<>>
    /\ TaggedWords(response.words) # <<>>

\* the role of a speaker index under the rule for channels
RoleByDirection(index) ==
    IF (call_direction = "inbound") = (index = 0) THEN "employee" ELSE "customer"

\* a list with each run of equal elements reduced to one element
RECURSIVE Collapse(_)
Collapse(list) ==
    IF Len(list) < 2 THEN list
    ELSE IF list[1] = list[2] THEN Collapse(Tail(list))
    ELSE <<list[1]>> \o Collapse(Tail(list))

\* C22: in the word-level fallback a word's speaker index is mapped to a role
\* by the rule for utterance channels, 0 employee and 1 customer on an inbound
\* call and the other way round on an outbound call, so that the roles of
\* the synthetic utterances agree with speakers.*.channel.
C22_WordRolesFollowDirection ==
    WordFallback =>
        LET tagged == TaggedWords(response.words)
            roles  == [i \in 1..Len(tagged) |-> RoleByDirection(tagged[i].speaker)]
        IN  /\ [i \in 1..Len(result.utterances) |-> result.utterances[i].speaker]
                   = Collapse(roles)
            /\ \A i \in 1..Len(tagged) :
                   result.speakers[roles[i]].channel = tagged[i].speaker

\* the words split where the speaker changes
RECURSIVE Runs(_)
Runs(words) ==
    IF words = <<>> THEN <<>>
    ELSE LET rest == Runs(Tail(words))
         IN  IF rest # <<>> /\ rest[1][1].speaker = words[1].speaker
             THEN <<(<<words[1]>> \o rest[1])>> \o Tail(rest)
             ELSE <<(<<words[1]>>)>> \o rest

WordsOf(words) == [i \in 1..Len(words) |-> words[i].word]

\* C23: the speaker-tagged words are coalesced into utterances of which no
\* two in a row have the same speaker; an utterance's text is its words
\* joined in order and its start its first word's start; the end of an
\* utterance that is not the last is the start of the next, the end of the
\* last is the end of the last word of the word list; every speaker-tagged
\* word is in exactly one utterance.
C23_WordsCoalesced ==
    WordFallback =>
        LET tagged == TaggedWords(response.words)
            wordruns   == Runs(tagged)
            utts   == result.utterances
            n      == Len(utts)
        IN  /\ n = Len(wordruns)
            /\ \A i \in 1..n :
                   /\ utts[i].text = join(WordsOf(wordruns[i]))
                   /\ utts[i].start = wordruns[i][1].start
                   /\ i < n => /\ utts[i].end = utts[i + 1].start
                               /\ utts[i].speaker # utts[i + 1].speaker
            /\ utts[n].end = response.words[Len(response.words)].end
            /\ join([i \in 1..n |-> utts[i].text]) = join(WordsOf(tagged))

\* a word of each speaker, then a word without a speaker
C23_Witness ==
    /\ WordFallback
    /\ Len(response.words) = 3
    /\ "speaker" \notin DOMAIN response.words[3]
    /\ Len(result.utterances) = 2
    /\ result.utterances[2].end = response.words[3].end

\* the number of places at which a word of the list occurs in the text
RECURSIVE OccurrenceCount(_, _)
OccurrenceCount(words, text) ==
    IF words = <<>> THEN 0
    ELSE Cardinality(Occurrences(text, words[1], 1))
         + OccurrenceCount(Tail(words), text)

\* the lower-cased texts of the employee's utterances, joined
EmployeeSpeech ==
    lower(join(SpeakerTexts(result.utterances, "employee")))

\* C24: professionalism_score = 100 * prof / (prof + unprof), prof and unprof
\* the occurrence counts of the professional and of the unprofessional words
\* in the lower-cased employee text, when prof + unprof > 0; it is 0 when
\* both counts are 0; it always lies in [0, 100].
C24_ProfessionalismScore ==
    QualityAnalyzed =>
        LET text   == EmployeeSpeech
            prof   == OccurrenceCount(<<"sir", "ma'am", "please", "thank you",
                                        "appreciate", "certainly", "absolutely",
                                        "happy to">>, text)
            unprof == OccurrenceCount(<<"yeah", "nah", "dunno", "gonna", "wanna">>,
                                      text)
            score  == result.quality_metrics.professionalism_score
        IN  /\ prof + unprof > 0 =>
                   score.num * (prof + unprof) = 100 * prof * score.den
            /\ prof + unprof = 0 => score = Frac(0, 1)
            /\ FracLeq(Frac(0, 1), score)
            /\ FracLeq(score, Frac(100, 1))

\* 'yeah' twice and 'sir' once
C24_Witness ==
    /\ QualityAnalyzed
    /\ EmployeeSpeech = "yeah, yeah, no problem, sir"
    /\ result.quality_metrics.professionalism_score = Frac(100, 3)

\* C29: in the word-level fallback each utterance starts exactly where the
\* one before it ends, so interruptions = 0 and silence_periods = 0 whatever
\* the times of the words.
C29_WordUtterancesAbut ==
    (WordFallback /\ QualityAnalyzed) =>
        /\ \A i \in 2..Len(result.utterances) :
               result.utterances[i].start = result.utterances[i - 1].end
        /\ result.quality_metrics.interruptions = 0
        /\ result.quality_metrics.silence_periods = 0

\* the second speaker's word starts more than 3.0 s after the first one's ends
C29_Witness ==
    /\ WordFallback
    /\ QualityAnalyzed
    /\ Len(response.words) = 2
    /\ response.words[2].start - response.words[1].end > 30
    /\ Len(result.utterances) = 2
    /\ result.quality_metrics.silence_periods = 0

\* the lower-cased texts of the customer's utterances, joined
CustomerSpeech ==
    lower(join(SpeakerTexts(result.utterances, "customer")))

\* C30: a call processed end to end whose customer utterances hold negative
\* words and no positive word has the high-priority action item 'Follow up
\* with customer' in its insights.
C30_NegativeCustomerFollowedUp ==
    (/\ Reported
     /\ "utterances" \in DOMAIN result
     /\ PresentWords(negative_words, CustomerSpeech) > 0
     /\ PresentWords(positive_words, CustomerSpeech) = 0)
    => \E i \in 1..Len(insights.action_items) :
           /\ insights.action_items[i].priority = "high"
           /\ insights.action_items[i].action = "Follow up with customer"

\* C25: _generate_insights_report never raises when a field of the report,
\* or one of its keys, is absent: it takes the field's zero or empty default
\* and returns an insights structure.
C25_AbsentFieldsDefaulted ==
    pc \in {"reported", "raised"} =>
        /\ pc = "reported"
        /\ DOMAIN insights = {"key_findings", "action_items",
                              "coaching_opportunities", "business_intelligence"}


---------------------------------------------------------------------------
(* parse_duration *)

\* what int() makes of the fields that are numbers to it
FieldValue ==
    ("0" :> 0) @@ ("00" :> 0) @@ ("5" :> 5) @@ ("23" :> 23) @@ ("-3" :> -3) @@ (" 7" :> 7)

\* C21: parse_duration maps 'M:SS' to 60*M + S, 'H:MM:SS' to
\* 3600*H + 60*M + S, a number alone to its value, and every other string
\* (empty, a field that is no number, more than three fields) to 0; it
\* returns an integer for every string.
C21_ParseDuration ==
    pc = "parsed" =>
        LET f       == split_colon(duration_str)
            numeric == \A i \in 1..Len(f) : f[i] \in DOMAIN FieldValue
        IN  /\ seconds \in Int
            /\ (numeric /\ Len(f) = 1) => seconds = FieldValue[f[1]]
            /\ (numeric /\ Len(f) = 2) =>
                   seconds = 60 * FieldValue[f[1]] + FieldValue[f[2]]
            /\ (numeric /\ Len(f) = 3) =>
                   seconds = 3600 * FieldValue[f[1]] + 60 * FieldValue[f[2]]
                             + FieldValue[f[3]]
            /\ (~numeric \/ Len(f) > 3) => seconds = 0

\* "5:23" has been parsed to 323 seconds
C21_Witness ==
    pc = "parsed" /\ duration_str = "5:23" /\ seconds = 323


---------------------------------------------------------------------------
(* The pipelines *)

\* C26: once a call's stored status is 'analyzed' it is never set back to
\* 'pending_download', and no call gets a second call_analysis row, however
\* often run_pipeline is invoked and whatever the upstream list returns.
C26_AnalyzedIsFinal ==
    [][ /\ \A c \in DOMAIN calls :
              calls[c] = "analyzed" => calls'[c] # "pending_download"
        /\ \A c \in Calls : call_analysis'[c] <= 1 ]_vars

\* the call that the i-th result of the running loop belongs to
CallOf(i) == pending_calls[i]

\* C27: whenever EnhancedHybridPipeline.process_call_complete has returned
\* success == False, the stored status of the call is 'error'.
C27_EnhancedFailureIsError ==
    (pipeline = "enhanced" /\ pc = "processing") =>
        \A i \in 1..Len(results) :
            ~results[i].success => calls[CallOf(i)] = "error"

\* C28: FinalHybridPipeline.process_call_complete returns success == True
\* and leaves the status 'analyzed' only if every stage recorded in
\* result['stages'] is 'completed'.
C28_SuccessNeedsEveryStage ==
    (pipeline = "final" /\ pc = "processing") =>
        \A i \in 1..Len(results) :
            (results[i].success \/ calls[CallOf(i)] = "analyzed") =>
                \A stage \in DOMAIN results[i].stages :
                    results[i].stages[stage] = "completed"

============================================================================
